---- MODULE Spec2Model ----
(***************************************************************************)
(* The confession / suggestion bot of hirayabot.py as a state machine.     *)
(*                                                                         *)
(* Every event handler (a modal's on_submit, a button callback,            *)
(* on_message) is a coroutine run by one asyncio event loop.  A handler    *)
(* slot p has a program counter pc[p] and locals loc[p]; one action is the *)
(* code a coroutine runs between two suspension points (an `async with`    *)
(* on a lock, an awaited call to Discord).  save_data_atomic is            *)
(* synchronous, but it is split into its file-system steps so that a crash *)
(* of the process can fall between them.                                   *)
(*                                                                         *)
(* Payload that no handler reads back (texts, user names, timestamps,      *)
(* jump urls) is left out of the records.  There is one guild.             *)
(***************************************************************************)
EXTENDS Integers, Sequences, FiniteSets, TLC

\* ------------------------------------------------------------------ bounds
\* handler slots: how many coroutines may be in flight at once
NumProcs == 2
\* handlers started in one behaviour when handlers interleave
MaxOps == 2
\* handlers started in one behaviour when they run one after the other
MaxSeqOps == 3
\* Discord users 1..MaxUsers
MaxUsers == 2
\* write() calls json.dump needs for one snapshot
SaveChunks == 1
\* clock ticks (each of half a TTL) in one behaviour
MaxTicks == 2
\* crashes (and restarts) of the process in one behaviour
MaxCrashes == 1
\* suggestions already stored in the snapshot the process starts from
NumLoaded == 2

Procs == 1..NumProcs
Users == 1..MaxUsers
NoProc == 0
\* Python's None for an integer-valued field
None == 0

\* ------------------------------------------------------------- the program
PENDING_IMAGE_TTL_SECONDS == 60 * 30

\* the guild all events come from, its channels, and who may manage it
GuildId == 1
SuggestionChannel == 11
ConfessionChannel == 12
OtherChannel == 13
Channels == {SuggestionChannel, ConfessionChannel, OtherChannel}
\* members with guild_permissions.manage_guild
Mods == {1}

VARIABLES
    DATA,               \* the in-memory ledger (module global DATA)
    fs,                 \* the two files: canon = confessions.json, tmp = confessions.json.tmp
    data_lock,          \* holder of data_lock, or NoProc
    PENDING_IMAGE,      \* the dict, as the sequence of its values in insertion order
    PENDING_IMAGE_LOCK, \* holder of PENDING_IMAGE_LOCK, or NoProc
    pc,                 \* pc[p]: where handler slot p stands
    loc,                \* loc[p]: its local variables
    messages,           \* Discord's side: messages[m] is the message with id m
    now,                \* datetime.utcnow().timestamp()
    conc,               \* how many handlers the event loop has in flight at most
    budget,             \* how many handlers are started in this behaviour at most
    ops,                \* history: handlers started
    crashes,            \* history: crashes so far
    allocLog,           \* history: identifiers handed out, per kind, in order
    voteLog,            \* history: the toggles done, in order
    imgLog,             \* history: the image messages resolved in the suggestion channel, in
                        \* order: those written to a suggestion and those that matched nothing
    reqLog,             \* history: the pending requests registered, in order
    saveLog             \* history: the save in progress and what the last restart loaded

vars == <<DATA, fs, data_lock, PENDING_IMAGE, PENDING_IMAGE_LOCK, pc, loc, messages,
          now, conc, budget, ops, crashes, allocLog, voteLog, imgLog, reqLog, saveLog>>

EmptyMap == [x \in {} |-> None]

Put(m, k, v) == [x \in DOMAIN m \cup {k} |-> IF x = k THEN v ELSE m[x]]

\* dict.get(k) with None for a missing key
Get(m, k) == IF k \in DOMAIN m THEN m[k] ELSE None

default_data ==
    [confession_count |-> 0,
     confessions |-> EmptyMap,
     message_to_confession |-> EmptyMap,
     suggestion_count |-> 0,
     suggestions |-> EmptyMap,
     message_to_suggestion |-> EmptyMap,
     guild_config |-> EmptyMap]

\* the keys of DATA for the two kinds of submission
CountKey(kind) == IF kind = "confession" THEN "confession_count" ELSE "suggestion_count"
TableKey(kind) == IF kind = "confession" THEN "confessions" ELSE "suggestions"
IndexKey(kind) == IF kind = "confession" THEN "message_to_confession" ELSE "message_to_suggestion"

\* ------------------------------------------------------------------- files
NoFile == [exists |-> FALSE, data |-> default_data, written |-> 0]

\* a file whose JSON text is whole
Whole(f) == f.exists /\ f.written >= SaveChunks

\* a mutant: whatever the file holds is taken, whole or not
load_data_unchecked(f) == f.data

\* load_data: defaults for a missing file and for one json.load rejects
load_data(f) ==
    IF ~f.exists THEN default_data
    ELSE IF f.written < SaveChunks THEN default_data
    ELSE f.data

\* a mutant: the snapshot is written over confessions.json itself
save_open_in_place(f, d) ==
    [canon |-> [exists |-> TRUE, data |-> d, written |-> 0],
     tmp |-> [exists |-> TRUE, data |-> d, written |-> 0]]

\* open(tmp, "w"): the temporary file exists and is empty
save_open(f, d) == [f EXCEPT !.tmp = [exists |-> TRUE, data |-> d, written |-> 0]]

\* one write() of json.dump
save_write(f) == [f EXCEPT !.tmp.written = @ + 1]

\* os.replace(tmp, DATA_FILE)
save_replace(f) == [canon |-> f.tmp, tmp |-> NoFile]

\* ------------------------------------------------------------------- locks
\* a mutant: the lock is taken without waiting for its holder
LockFreeAlways(l) == TRUE

\* asyncio.Lock: acquire() goes through only when nobody holds the lock
LockFree(l) == l = NoProc

\* a mutant: the block is left with the lock still taken
lock_exit_kept(l) == l

\* the end of an `async with` block, by its last statement, a return or an
\* exception: release() leaves the lock free
lock_exit(l) == NoProc

\* ----------------------------------------------------------------- locals
IdleLoc ==
    [h |-> "idle", user |-> None, chan |-> None, id |-> None, msg |-> None,
     up |-> FALSE, url |-> None, ref |-> None, target |-> None,
     upvotes |-> {}, downvotes |-> {}, up_count |-> 0, down_count |-> 0,
     ret |-> "idle", valid |-> TRUE, rebuilt |-> 0, answer |-> "none",
     new_status |-> "pending", thread |-> None]

Idle(p) == pc[p] = "idle"

Active == {p \in Procs : pc[p] # "idle"}

\* a new event may be dispatched; the slots are interchangeable, and it gets the
\* first free one
CanStart(p) ==
    /\ Idle(p)
    /\ \A q \in Procs : q < p => ~Idle(q)
    /\ ops < budget
    /\ Cardinality(Active) < conc

\* get_guild_cfg: DATA["guild_config"].setdefault(str(guild_id), {})
EmptyCfg == [confession_channel_id |-> None, suggestion_channel_id |-> None,
             log_channel_id |-> None]

get_guild_cfg(d) ==
    IF GuildId \in DOMAIN d.guild_config THEN d
    ELSE [d EXCEPT !.guild_config = Put(@, GuildId, EmptyCfg)]

cfg_of(d) == get_guild_cfg(d).guild_config[GuildId]

\* ------------------------------------------------------- what Discord holds
\* a posted confession or suggestion message: its embed title carries "#<num>";
\* `status` is the Status field a suggestion's embed shows, `threads` the number
\* of threads made from the message
Message(kind, num, chan) ==
    [kind |-> kind, num |-> num, chan |-> chan, status |-> "pending", threads |-> 0]

ChannelKey(kind) ==
    IF kind = "confession" THEN "confession_channel_id" ELSE "suggestion_channel_id"

\* --------------------------------------------------------------- the records
\* DATA["confessions"][str(cid)] as on_submit writes it
ConfessionRecord(user, msg) ==
    [user_id |-> user, message_id |-> msg, thread_id |-> None, replies |-> <<>>]

\* DATA["suggestions"][str(sid)] as on_submit writes it
SuggestionRecord(user, msg) ==
    [user_id |-> user, message_id |-> msg, status |-> "pending", image_url |-> None,
     upvotes |-> {}, downvotes |-> {}]

NewRecord(kind, user, msg) ==
    IF kind = "confession" THEN ConfessionRecord(user, msg) ELSE SuggestionRecord(user, msg)

\* a mutant: the incremented counter is not written back
bump_counter_lost(d, kind) == d

\* a mutant: the record is written with the counter, before the post
bump_counter_reserving(d, kind) ==
    [d EXCEPT ![CountKey(kind)] = @ + 1,
              ![TableKey(kind)] = Put(@, d[CountKey(kind)] + 1, NewRecord(kind, None, None))]

\* DATA["<kind>_count"] += 1
bump_counter(d, kind) == [d EXCEPT ![CountKey(kind)] = @ + 1]

\* a mutant: the record is stored without its index entry
store_record_unindexed(d, kind, id, user, msg) ==
    [d EXCEPT ![TableKey(kind)] = Put(@, id, NewRecord(kind, user, msg))]

\* the record and its index entry, written in one block
store_record(d, kind, id, user, msg) ==
    [d EXCEPT ![TableKey(kind)] = Put(@, id, NewRecord(kind, user, msg)),
              ![IndexKey(kind)] = Put(@, msg, id)]

\* ------------------------------------------------------------ save_data_atomic
\* the handler at p enters save_data_atomic(d) and will go on at `ret`
BeginSave(p, d, ret, l) ==
    /\ fs' = save_open(fs, d)
    /\ saveLog' = [saveLog EXCEPT !.old = fs.canon, !.new = d]
    /\ pc' = [pc EXCEPT ![p] = "save"]
    /\ loc' = [l EXCEPT ![p].ret = ret]

\* up_count and down_count: the lengths of the record's two lists
vote_counts(rec) == [up |-> Cardinality(rec.upvotes), down |-> Cardinality(rec.downvotes)]

\* json.dump writes the next piece of the snapshot
SaveWrite(p) ==
    /\ pc[p] = "save"
    /\ fs.tmp.written < SaveChunks
    /\ fs' = save_write(fs)
    /\ UNCHANGED <<DATA, data_lock, PENDING_IMAGE, PENDING_IMAGE_LOCK, pc, loc, messages,
                   now, conc, budget, ops, crashes, allocLog, voteLog, imgLog, reqLog, saveLog>>

\* os.replace, then the rest of the `async with data_lock` block and its exit;
\* _vote reads the tallies back from the record before it leaves the block, and
\* ReplyModal.on_submit reads the record's thread_id right after leaving it
SaveReplace(p) ==
    /\ pc[p] = "save"
    /\ fs.tmp.written >= SaveChunks
    /\ fs' = save_replace(fs)
    /\ data_lock' = NoProc
    /\ pc' = [pc EXCEPT ![p] = loc[p].ret]
    /\ loc' = IF loc[p].h = "vote" /\ loc[p].id \in DOMAIN DATA.suggestions
              THEN [loc EXCEPT ![p].up_count = vote_counts(DATA.suggestions[loc[p].id]).up,
                               ![p].down_count = vote_counts(DATA.suggestions[loc[p].id]).down]
              ELSE IF loc[p].ret = "reply_thread"
              THEN [loc EXCEPT ![p].thread = DATA.confessions[loc[p].id].thread_id]
              ELSE loc
    /\ UNCHANGED <<DATA, PENDING_IMAGE, PENDING_IMAGE_LOCK, messages,
                   now, conc, budget, ops, crashes, allocLog, voteLog, imgLog, reqLog, saveLog>>

\* ------------------------------------------------------- the handlers' ends
\* the awaits a handler ends with: the log message (inside try/except) where
\* there is one, and the ephemeral answer.  _vote answers "Suggestion not
\* found" from inside its `async with data_lock` block: the lock is held over
\* that await and released when the handler returns
Respond(p) ==
    /\ pc[p] \in {"respond", "respond_locked"}
    /\ data_lock' = IF pc[p] = "respond_locked" /\ data_lock = p THEN lock_exit(data_lock)
                                                                  ELSE data_lock
    /\ pc' = [pc EXCEPT ![p] = "idle"]
    /\ loc' = [loc EXCEPT ![p] = IdleLoc]
    /\ UNCHANGED <<DATA, fs, PENDING_IMAGE, PENDING_IMAGE_LOCK, messages,
                   now, conc, budget, ops, crashes, allocLog, voteLog, imgLog, reqLog, saveLog>>

\* ---------------------------- ConfessionModal.on_submit / SuggestionModal.on_submit
\* the modal of `kind` is submitted by `user`; `valid`: the channel exists and
\* the text is not empty after strip().  Up to channel.send nothing suspends the
\* coroutine once data_lock is free: the guild's channels are read, the checks
\* made, the counter incremented and read
SubmitStart(p, kind, user, valid) ==
    /\ CanStart(p)
    /\ LockFree(data_lock)
    /\ ops' = ops + 1
    /\ LET d1 == get_guild_cfg(DATA)
           chan == cfg_of(DATA)[ChannelKey(kind)]
           d2 == bump_counter(d1, kind)
           id == d2[CountKey(kind)]
           l == [IdleLoc EXCEPT !.h = kind, !.user = user, !.chan = chan]
       IN IF chan # None /\ valid
          THEN /\ DATA' = d2
               /\ loc' = [loc EXCEPT ![p] = [l EXCEPT !.id = id]]
               /\ allocLog' = [allocLog EXCEPT ![kind] = Append(@, id)]
               /\ pc' = [pc EXCEPT ![p] = "sub_post"]
          ELSE /\ DATA' = d1
               /\ loc' = [loc EXCEPT ![p] = l]
               /\ allocLog' = allocLog
               /\ pc' = [pc EXCEPT ![p] = "respond"]
    /\ UNCHANGED <<fs, data_lock, PENDING_IMAGE, PENDING_IMAGE_LOCK, messages,
                   now, conc, budget, crashes, voteLog, imgLog, reqLog, saveLog>>

\* channel.send(...) returns the posted message
SubmitPostOk(p) ==
    /\ pc[p] = "sub_post"
    /\ messages' = Append(messages, Message(loc[p].h, loc[p].id, loc[p].chan))
    /\ loc' = [loc EXCEPT ![p].msg = Len(messages) + 1]
    /\ pc' = [pc EXCEPT ![p] = "sub_store"]
    /\ UNCHANGED <<DATA, fs, data_lock, PENDING_IMAGE, PENDING_IMAGE_LOCK,
                   now, conc, budget, ops, crashes, allocLog, voteLog, imgLog, reqLog, saveLog>>

\* channel.send(...) raises: the exception leaves on_submit
SubmitPostFail(p) ==
    /\ pc[p] = "sub_post"
    /\ pc' = [pc EXCEPT ![p] = "idle"]
    /\ loc' = [loc EXCEPT ![p] = IdleLoc]
    /\ UNCHANGED <<DATA, fs, data_lock, PENDING_IMAGE, PENDING_IMAGE_LOCK, messages,
                   now, conc, budget, ops, crashes, allocLog, voteLog, imgLog, reqLog, saveLog>>

\* the block after the post: the record, its index entry, and the save
SubmitStore(p) ==
    /\ pc[p] = "sub_store"
    /\ LockFree(data_lock)
    /\ data_lock' = p
    /\ DATA' = store_record(DATA, loc[p].h, loc[p].id, loc[p].user, loc[p].msg)
    /\ BeginSave(p, DATA', "respond", loc)
    /\ UNCHANGED <<PENDING_IMAGE, PENDING_IMAGE_LOCK, messages,
                   now, conc, budget, ops, crashes, allocLog, voteLog, imgLog, reqLog>>

\* ------------------------------------------------- rebuildmap / rebuildsuggestmap
\* a mutant: the index is keyed by the records' own identifiers
rebuilt_index_by_id(table) == [i \in DOMAIN table |-> i]

\* the index rebuilt from the records that hold a message id (were two records
\* to hold the same message id, the one the dict iterates last would win)
rebuilt_index(table) ==
    [m \in {table[i].message_id : i \in {j \in DOMAIN table : table[j].message_id # None}}
        |-> CHOOSE i \in DOMAIN table : table[i].message_id = m]

\* `rebuilt`: one for every record that holds a message id
rebuilt_count(table) == Cardinality({j \in DOMAIN table : table[j].message_id # None})

RebuildCommand(kind) == IF kind = "confession" THEN "rebuildmap" ELSE "rebuildsuggestmap"

\* `!rebuildmap` or `!rebuildsuggestmap`: the block under data_lock
Rebuild(p, kind) ==
    /\ CanStart(p)
    /\ LockFree(data_lock)
    /\ ops' = ops + 1
    /\ data_lock' = p
    /\ DATA' = [DATA EXCEPT ![IndexKey(kind)] = rebuilt_index(DATA[TableKey(kind)])]
    /\ BeginSave(p, DATA', "respond",
                 [loc EXCEPT ![p] = [IdleLoc EXCEPT !.h = RebuildCommand(kind),
                                                    !.rebuilt = rebuilt_count(DATA[TableKey(kind)])]])
    /\ UNCHANGED <<PENDING_IMAGE, PENDING_IMAGE_LOCK, messages,
                   now, conc, budget, crashes, allocLog, voteLog, imgLog, reqLog>>

\* ------------------------------------------------------------------ the process
\* the process dies and is started again: DATA = load_data(), everything else
\* in memory is gone; the files and Discord's messages stay
Crash ==
    /\ crashes < MaxCrashes
    /\ crashes' = crashes + 1
    /\ DATA' = load_data(fs.canon)
    /\ data_lock' = NoProc
    /\ PENDING_IMAGE' = <<>>
    /\ PENDING_IMAGE_LOCK' = NoProc
    /\ pc' = [p \in Procs |-> "idle"]
    /\ loc' = [p \in Procs |-> IdleLoc]
    /\ saveLog' = [saveLog EXCEPT !.c_old = saveLog.old, !.c_new = saveLog.new,
                                  !.c_loaded = load_data(fs.canon),
                                  !.c_mid = \E p \in Procs : pc[p] = "save"]
    /\ UNCHANGED <<fs, messages, now, conc, budget, ops, allocLog, voteLog, imgLog, reqLog>>

\* ------------------------------------------------------- SuggestionView._vote
\* a mutant: a vote for one side leaves the voter's vote for the other side
toggle_vote_keep_opposite(upvotes, downvotes, uid, up) ==
    IF up
    THEN [upvotes |-> IF uid \in upvotes THEN upvotes \ {uid} ELSE upvotes \cup {uid},
          downvotes |-> downvotes]
    ELSE [upvotes |-> upvotes,
          downvotes |-> IF uid \in downvotes THEN downvotes \ {uid} ELSE downvotes \cup {uid}]

\* a mutant: a second vote for the same side is not taken back
toggle_vote_no_unvote(upvotes, downvotes, uid, up) ==
    IF up
    THEN [upvotes |-> upvotes \cup {uid}, downvotes |-> downvotes \ {uid}]
    ELSE [upvotes |-> upvotes \ {uid}, downvotes |-> downvotes \cup {uid}]

\* the if/else over the two sets
toggle_vote(upvotes, downvotes, uid, up) ==
    IF up
    THEN IF uid \in upvotes
         THEN [upvotes |-> upvotes \ {uid}, downvotes |-> downvotes]
         ELSE [upvotes |-> upvotes \cup {uid}, downvotes |-> downvotes \ {uid}]
    ELSE IF uid \in downvotes
         THEN [upvotes |-> upvotes, downvotes |-> downvotes \ {uid}]
         ELSE [upvotes |-> upvotes \ {uid}, downvotes |-> downvotes \cup {uid}]

\* the suggestion messages Discord shows, each with its buttons
SuggestionMessages == {m \in 1..Len(messages) : messages[m].kind = "suggestion"}

\* the index, else the number in the embed's title
resolve_suggestion(d, m) ==
    IF Get(d.message_to_suggestion, m) # None
    THEN Get(d.message_to_suggestion, m)
    ELSE messages[m].num

\* `user` presses Upvote (up) or Downvote on message m: data_lock is taken, sid
\* and rec are looked up and the two lists read
VoteStart(p, user, m, up) ==
    /\ CanStart(p)
    /\ m \in SuggestionMessages
    /\ LockFree(data_lock)
    /\ data_lock' = p
    /\ ops' = ops + 1
    /\ LET sid == resolve_suggestion(DATA, m)
           l == [IdleLoc EXCEPT !.h = "vote", !.user = user, !.msg = m, !.up = up]
       IN IF sid \in DOMAIN DATA.suggestions
          THEN /\ loc' = [loc EXCEPT ![p] = [l EXCEPT !.id = sid,
                                                      !.upvotes = DATA.suggestions[sid].upvotes,
                                                      !.downvotes = DATA.suggestions[sid].downvotes]]
               /\ pc' = [pc EXCEPT ![p] = "vote_write"]
          ELSE /\ loc' = [loc EXCEPT ![p] = [l EXCEPT !.id = sid, !.answer = "not_found"]]
               /\ pc' = [pc EXCEPT ![p] = "respond_locked"]
    /\ UNCHANGED <<DATA, fs, PENDING_IMAGE, PENDING_IMAGE_LOCK, messages,
                   now, conc, budget, crashes, allocLog, voteLog, imgLog, reqLog, saveLog>>

\* still in the block: the toggle, the two lists written back, the save.  The
\* block is cut between its reads and its writes, finer than the event loop
\* cuts it, so that what keeps other handlers out of it is data_lock alone
VoteWrite(p) ==
    /\ pc[p] = "vote_write"
    /\ LET sid == loc[p].id
           new == toggle_vote(loc[p].upvotes, loc[p].downvotes, loc[p].user, loc[p].up)
       IN /\ DATA' = [DATA EXCEPT !.suggestions[sid].upvotes = new.upvotes,
                                  !.suggestions[sid].downvotes = new.downvotes]
          /\ voteLog' = Append(voteLog,
                 [proc |-> p, sid |-> sid, uid |-> loc[p].user, up |-> loc[p].up,
                  preUp |-> DATA.suggestions[sid].upvotes,
                  preDown |-> DATA.suggestions[sid].downvotes,
                  postUp |-> new.upvotes, postDown |-> new.downvotes])
    /\ BeginSave(p, DATA', "vote_edit", loc)
    /\ UNCHANGED <<data_lock, PENDING_IMAGE, PENDING_IMAGE_LOCK, messages,
                   now, conc, budget, ops, crashes, allocLog, imgLog, reqLog>>

\* msg.edit(...) with the tallies read under the lock, loc[p].up_count and
\* loc[p].down_count, as the message's Votes field
VoteEdit(p) ==
    /\ pc[p] = "vote_edit"
    /\ pc' = [pc EXCEPT ![p] = "respond"]
    /\ loc' = [loc EXCEPT ![p].answer = "vote_updated"]
    /\ UNCHANGED <<DATA, fs, data_lock, PENDING_IMAGE, PENDING_IMAGE_LOCK, messages,
                   now, conc, budget, ops, crashes, allocLog, voteLog, imgLog, reqLog, saveLog>>

\* ------------------------------------------------------------ PENDING_IMAGE
\* the position of key (guild, message) in the dict, 0 when it is not a key
pending_index(P, g, mid) ==
    IF \E i \in 1..Len(P) : P[i].guild_id = g /\ P[i].message_id = mid
    THEN CHOOSE i \in 1..Len(P) : P[i].guild_id = g /\ P[i].message_id = mid
    ELSE 0

\* PENDING_IMAGE.get(key)
pending_get(P, g, mid) == P[pending_index(P, g, mid)]

\* a mutant: expired entries are left in the dict
clean_expired_pending_never(P, t) == P

\* _clean_expired_pending at time t
clean_expired_pending(P, t) == SelectSeq(P, LAMBDA v : ~(v.expires_at <= t))

\* _set_pending_image at time t: an assignment to an existing key keeps the
\* key's place in the dict, a new key goes last.  `req` numbers the request.
set_pending_image(P, g, chan, mid, user, t, req) ==
    LET v == [guild_id |-> g, channel_id |-> chan, message_id |-> mid, user_id |-> user,
              created_at |-> t, expires_at |-> t + PENDING_IMAGE_TTL_SECONDS, req |-> req]
        i == pending_index(P, g, mid)
    IN IF i = 0 THEN Append(P, v) ELSE [P EXCEPT ![i] = v]

\* a mutant: the entry is left in the dict
clear_pending_image_kept(P, g, mid) == P

\* _clear_pending_image: PENDING_IMAGE.pop(key, None)
clear_pending_image(P, g, mid) ==
    SelectSeq(P, LAMBDA v : ~(v.guild_id = g /\ v.message_id = mid))

\* list.sort(key=created_at, reverse=True): descending, and stable, so entries
\* of equal created_at keep the order they had
RECURSIVE sort_created_desc(_)
sort_created_desc(s) ==
    IF s = <<>> THEN <<>>
    ELSE LET i == CHOOSE i \in 1..Len(s) :
                    /\ \A j \in 1..Len(s) : s[j].created_at <= s[i].created_at
                    /\ \A j \in 1..(i - 1) : s[j].created_at < s[i].created_at
         IN <<s[i]>> \o sort_created_desc(SubSeq(s, 1, i - 1) \o SubSeq(s, i + 1, Len(s)))

\* _find_pending_for_user, on the dict as _clean_expired_pending left it
find_pending_for_user(P, g, chan, user) ==
    sort_created_desc(SelectSeq(P, LAMBDA v :
        v.guild_id = g /\ v.channel_id = chan /\ v.user_id = user))

\* a mutant: anyone passes the check
may_manage_anyone(owner, user) == TRUE

\* is_owner or is_mod
may_manage(owner, user) == owner = user \/ user \in Mods

\* ------------------------------------------------ SuggestionView.attach_image
\* `user` presses Attach Image on message m: the block under data_lock, the
\* three checks, and _set_pending_image(guild.id, msg.channel.id, msg.id,
\* rec.get("user_id")); only the answer is awaited
AttachStart(p, user, m) ==
    /\ CanStart(p)
    /\ m \in SuggestionMessages
    /\ LockFree(data_lock)
    /\ LockFree(PENDING_IMAGE_LOCK)
    /\ ops' = ops + 1
    /\ DATA' = get_guild_cfg(DATA)
    /\ LET sid == Get(DATA.message_to_suggestion, m)
           found == sid # None /\ sid \in DOMAIN DATA.suggestions
           owner == IF found THEN DATA.suggestions[sid].user_id ELSE None
           allowed == may_manage(owner, user)
           scid == cfg_of(DATA).suggestion_channel_id
           here == scid # None /\ scid = messages[m].chan
       IN /\ IF found /\ allowed /\ here
             THEN /\ PENDING_IMAGE' = set_pending_image(PENDING_IMAGE, GuildId, messages[m].chan,
                                                        m, owner, now, Len(reqLog) + 1)
                  /\ reqLog' = Append(reqLog, [msg |-> m, user |-> owner, by |-> user])
             ELSE UNCHANGED <<PENDING_IMAGE, reqLog>>
       /\ loc' = [loc EXCEPT ![p] =
                    [IdleLoc EXCEPT !.h = "attach", !.user = user, !.msg = m,
                                    !.answer = IF ~found THEN "not_detected"
                                               ELSE IF ~allowed THEN "forbidden"
                                               ELSE IF ~here THEN "wrong_channel"
                                               ELSE "send_image"]]
    /\ pc' = [pc EXCEPT ![p] = "respond"]
    /\ UNCHANGED <<fs, data_lock, PENDING_IMAGE_LOCK, messages,
                   now, conc, budget, crashes, allocLog, voteLog, imgLog, saveLog>>

\* ----------------------------------------------------------------- on_message
\* the target by reference, None when the reference names no entry of this
\* user in this channel
target_by_reference(P, ref, user, chan) ==
    IF ref # None /\ pending_index(P, GuildId, ref) # 0
       /\ pending_get(P, GuildId, ref).user_id = user
       /\ pending_get(P, GuildId, ref).channel_id = chan
    THEN ref
    ELSE None

\* a mutant: the reference is not looked at
match_incoming_latest(P, ref, user, chan) ==
    IF find_pending_for_user(P, GuildId, chan, user) # <<>>
    THEN find_pending_for_user(P, GuildId, chan, user)[1].message_id
    ELSE None

\* target_suggestion_message_id: the referenced message, else the first of
\* _find_pending_for_user, else None (on_message returns)
match_incoming(P, ref, user, chan) ==
    IF target_by_reference(P, ref, user, chan) # None
    THEN target_by_reference(P, ref, user, chan)
    ELSE IF find_pending_for_user(P, GuildId, chan, user) # <<>>
         THEN find_pending_for_user(P, GuildId, chan, user)[1].message_id
         ELSE None

\* `user` (not a bot) posts a message with an attachment in channel `chan` of the
\* guild, as a reply to message `ref` or to none; every attachment has its own
\* url.  Nothing suspends the coroutine before fetch_message: the channel
\* checks, the expired entries dropped, the target found, and the block under
\* data_lock with the record's image_url and the save
OnMessageStart(p, user, chan, ref) ==
    /\ CanStart(p)
    /\ ref \in SuggestionMessages \cup {None}
    /\ LockFree(data_lock)
    /\ LockFree(PENDING_IMAGE_LOCK)
    /\ ops' = ops + 1
    /\ LET url == ops + 1
           d1 == get_guild_cfg(DATA)
           scid == cfg_of(DATA).suggestion_channel_id
           P == clean_expired_pending(PENDING_IMAGE, now)
           target == match_incoming(P, ref, user, chan)
           sid == Get(DATA.message_to_suggestion, target)
           l == [IdleLoc EXCEPT !.h = "on_message", !.user = user, !.chan = chan,
                                !.ref = ref, !.url = url, !.target = target]
       IN IF ~(scid # None /\ chan = scid)
          THEN /\ DATA' = d1
               /\ UNCHANGED <<fs, data_lock, PENDING_IMAGE, PENDING_IMAGE_LOCK, pc, loc,
                              imgLog, saveLog>>
          ELSE IF target = None
          THEN /\ DATA' = d1
               /\ PENDING_IMAGE' = P
               /\ imgLog' = Append(imgLog, [user |-> user, url |-> url, req |-> None, sid |-> None])
               /\ UNCHANGED <<fs, data_lock, PENDING_IMAGE_LOCK, pc, loc, saveLog>>
          ELSE IF ~(sid # None /\ sid \in DOMAIN DATA.suggestions)
          THEN /\ DATA' = d1
               /\ PENDING_IMAGE' = P
               /\ data_lock' = p
               /\ PENDING_IMAGE_LOCK' = p
               /\ pc' = [pc EXCEPT ![p] = "om_orphan"]
               /\ loc' = [loc EXCEPT ![p] = l]
               /\ UNCHANGED <<fs, imgLog, saveLog>>
          ELSE /\ DATA' = [d1 EXCEPT !.suggestions[sid].image_url = url]
               /\ PENDING_IMAGE' = P
               /\ data_lock' = p
               /\ imgLog' = Append(imgLog, [user |-> user, url |-> url,
                                            req |-> pending_get(P, GuildId, target).req,
                                            sid |-> sid])
               /\ BeginSave(p, DATA', "om_edit", [loc EXCEPT ![p] = l])
               /\ UNCHANGED PENDING_IMAGE_LOCK
    /\ UNCHANGED <<messages, now, conc, budget, crashes, allocLog, voteLog, reqLog>>

\* the target has no record: on_message stands in _clear_pending_image, called
\* from inside the block under data_lock (line 735), with PENDING_IMAGE_LOCK
\* taken (line 129); the entry is popped, both locks are left and on_message
\* returns
OnMessageOrphan(p) ==
    /\ pc[p] = "om_orphan"
    /\ PENDING_IMAGE' = clear_pending_image(PENDING_IMAGE, GuildId, loc[p].target)
    /\ PENDING_IMAGE_LOCK' = lock_exit(PENDING_IMAGE_LOCK)
    /\ data_lock' = lock_exit(data_lock)
    /\ pc' = [pc EXCEPT ![p] = "idle"]
    /\ loc' = [loc EXCEPT ![p] = IdleLoc]
    /\ UNCHANGED <<DATA, fs, messages, now, conc, budget, ops, crashes,
                   allocLog, voteLog, imgLog, reqLog, saveLog>>

\* fetch_message and suggestion_msg.edit, inside try/except
OnMessageEdit(p) ==
    /\ pc[p] = "om_edit"
    /\ pc' = [pc EXCEPT ![p] = "om_clear"]
    /\ UNCHANGED <<DATA, fs, data_lock, PENDING_IMAGE, PENDING_IMAGE_LOCK, loc, messages,
                   now, conc, budget, ops, crashes, allocLog, voteLog, imgLog, reqLog, saveLog>>

\* _clear_pending_image(guild, target) after the edit
OnMessageClear(p) ==
    /\ pc[p] = "om_clear"
    /\ LockFree(PENDING_IMAGE_LOCK)
    /\ PENDING_IMAGE' = clear_pending_image(PENDING_IMAGE, GuildId, loc[p].target)
    /\ pc' = [pc EXCEPT ![p] = "om_delete"]
    /\ UNCHANGED <<DATA, fs, data_lock, PENDING_IMAGE_LOCK, loc, messages,
                   now, conc, budget, ops, crashes, allocLog, voteLog, imgLog, reqLog, saveLog>>

\* message.delete(), inside try/except
OnMessageDelete(p) ==
    /\ pc[p] = "om_delete"
    /\ pc' = [pc EXCEPT ![p] = "idle"]
    /\ loc' = [loc EXCEPT ![p] = IdleLoc]
    /\ UNCHANGED <<DATA, fs, data_lock, PENDING_IMAGE, PENDING_IMAGE_LOCK, messages,
                   now, conc, budget, ops, crashes, allocLog, voteLog, imgLog, reqLog, saveLog>>

\* ------------------------------------------- SuggestionStatusSelect.callback
\* the statuses the select offers
Statuses == {"pending", "approved", "denied", "implemented"}

\* sid: the index, else the number in the embed's title
resolve_by_title(index, m) ==
    IF Get(index, m) # None THEN Get(index, m) ELSE messages[m].num

\* `user` picks `new_status` in the select under message m.  Nothing suspends
\* the coroutine before message.edit: the permission check, sid, and the block
\* that writes rec["status"] and saves when there is a record
StatusStart(p, user, m, new_status) ==
    /\ CanStart(p)
    /\ m \in SuggestionMessages
    /\ user \in Mods => LockFree(data_lock)
    /\ ops' = ops + 1
    /\ LET sid == resolve_by_title(DATA.message_to_suggestion, m)
           l == [IdleLoc EXCEPT !.h = "status", !.user = user, !.msg = m,
                                !.new_status = new_status]
       IN IF user \notin Mods
          THEN /\ pc' = [pc EXCEPT ![p] = "respond"]
               /\ loc' = [loc EXCEPT ![p] = [l EXCEPT !.answer = "forbidden"]]
               /\ UNCHANGED <<DATA, fs, data_lock, saveLog>>
          ELSE IF sid \in DOMAIN DATA.suggestions
          THEN /\ DATA' = [DATA EXCEPT !.suggestions[sid].status = new_status]
               /\ data_lock' = p
               /\ BeginSave(p, DATA', "status_edit", [loc EXCEPT ![p] = [l EXCEPT !.id = sid]])
          ELSE /\ pc' = [pc EXCEPT ![p] = "status_edit"]
               /\ loc' = [loc EXCEPT ![p] = [l EXCEPT !.id = sid]]
               /\ UNCHANGED <<DATA, fs, data_lock, saveLog>>
    /\ UNCHANGED <<PENDING_IMAGE, PENDING_IMAGE_LOCK, messages,
                   now, conc, budget, crashes, allocLog, voteLog, imgLog, reqLog>>

\* message.edit(embed=new_embed, ...): the message shows the new status; the
\* answer will be "Status updated"
StatusEdit(p) ==
    /\ pc[p] = "status_edit"
    /\ messages' = [messages EXCEPT ![loc[p].msg].status = loc[p].new_status]
    /\ loc' = [loc EXCEPT ![p].answer = "status_updated"]
    /\ pc' = [pc EXCEPT ![p] = "respond"]
    /\ UNCHANGED <<DATA, fs, data_lock, PENDING_IMAGE, PENDING_IMAGE_LOCK,
                   now, conc, budget, ops, crashes, allocLog, voteLog, imgLog, reqLog, saveLog>>

\* ----------------------------------------------------- SuggestionView.no_image
\* `user` presses No Image on message m: the block under data_lock, the two
\* checks, and _clear_pending_image; only the answer is awaited
NoImageStart(p, user, m) ==
    /\ CanStart(p)
    /\ m \in SuggestionMessages
    /\ LockFree(data_lock)
    /\ LockFree(PENDING_IMAGE_LOCK)
    /\ ops' = ops + 1
    /\ LET sid == Get(DATA.message_to_suggestion, m)
           found == sid # None /\ sid \in DOMAIN DATA.suggestions
           owner == IF found THEN DATA.suggestions[sid].user_id ELSE None
           allowed == may_manage(owner, user)
       IN /\ PENDING_IMAGE' = IF found /\ allowed
                              THEN clear_pending_image(PENDING_IMAGE, GuildId, m)
                              ELSE PENDING_IMAGE
          /\ loc' = [loc EXCEPT ![p] =
                       [IdleLoc EXCEPT !.h = "no_image", !.user = user, !.msg = m,
                                       !.answer = IF ~found THEN "not_detected"
                                                  ELSE IF ~allowed THEN "forbidden"
                                                  ELSE "no_image"]]
    /\ pc' = [pc EXCEPT ![p] = "respond"]
    /\ UNCHANGED <<DATA, fs, data_lock, PENDING_IMAGE_LOCK, messages,
                   now, conc, budget, crashes, allocLog, voteLog, imgLog, reqLog, saveLog>>

\* ------------------------- ConfessionPersistentView.reply / ReplyModal.on_submit
\* the confession messages Discord shows, each with its Reply button
ConfessionMessages == {m \in 1..Len(messages) : messages[m].kind = "confession"}

\* `user` presses Reply on message m: cid from the index, else from the title,
\* and the modal is sent
ReplyStart(p, user, m) ==
    /\ CanStart(p)
    /\ m \in ConfessionMessages
    /\ LockFree(data_lock)
    /\ ops' = ops + 1
    /\ loc' = [loc EXCEPT ![p] =
                 [IdleLoc EXCEPT !.h = "reply", !.user = user, !.msg = m,
                                 !.id = resolve_by_title(DATA.message_to_confession, m)]]
    /\ pc' = [pc EXCEPT ![p] = "reply_modal"]
    /\ UNCHANGED <<DATA, fs, data_lock, PENDING_IMAGE, PENDING_IMAGE_LOCK, messages,
                   now, conc, budget, crashes, allocLog, voteLog, imgLog, reqLog, saveLog>>

\* the modal is submitted with a text that is empty after strip() or not: the
\* guild's channels are read, and in the block under data_lock the reply is
\* appended to the record and saved.  "Confession not found" is answered from
\* inside the block
ReplySubmit(p, valid) ==
    /\ pc[p] = "reply_modal"
    /\ LockFree(data_lock)
    /\ LET d1 == get_guild_cfg(DATA)
           cid == loc[p].id
       IN IF ~valid
          THEN /\ DATA' = d1
               /\ pc' = [pc EXCEPT ![p] = "respond"]
               /\ loc' = [loc EXCEPT ![p].answer = "empty"]
               /\ UNCHANGED <<fs, data_lock, saveLog>>
          ELSE IF cid \notin DOMAIN DATA.confessions
          THEN /\ DATA' = d1
               /\ data_lock' = p
               /\ pc' = [pc EXCEPT ![p] = "respond_locked"]
               /\ loc' = [loc EXCEPT ![p].answer = "not_found"]
               /\ UNCHANGED <<fs, saveLog>>
          ELSE /\ DATA' = [d1 EXCEPT !.confessions[cid].replies = Append(@, loc[p].user)]
               /\ data_lock' = p
               /\ BeginSave(p, DATA', "reply_thread", loc)
    /\ UNCHANGED <<PENDING_IMAGE, PENDING_IMAGE_LOCK, messages,
                   now, conc, budget, ops, crashes, allocLog, voteLog, imgLog, reqLog>>

\* the record names a thread: thread.send(...) posts the reply there
ReplySend(p) ==
    /\ pc[p] \in {"reply_thread", "reply_send"}
    /\ loc[p].thread # None
    /\ loc' = [loc EXCEPT ![p].answer = "reply_sent"]
    /\ pc' = [pc EXCEPT ![p] = "respond"]
    /\ UNCHANGED <<DATA, fs, data_lock, PENDING_IMAGE, PENDING_IMAGE_LOCK, messages,
                   now, conc, budget, ops, crashes, allocLog, voteLog, imgLog, reqLog, saveLog>>

\* a mutant: Discord makes a second thread from a message that has one
can_create_thread_always(msg) == TRUE

\* create_thread returns a thread only for a message that has none: Discord
\* keeps one thread per message and answers 400 for a second one
can_create_thread(msg) == msg.threads = 0

\* the record names no thread: confession_message.create_thread(...) returns one
ReplyCreateThread(p) ==
    /\ pc[p] = "reply_thread"
    /\ loc[p].thread = None
    /\ can_create_thread(messages[loc[p].msg])
    /\ messages' = [messages EXCEPT ![loc[p].msg].threads = @ + 1]
    /\ loc' = [loc EXCEPT ![p].thread = loc[p].msg * 10 + messages[loc[p].msg].threads + 1]
    /\ pc' = [pc EXCEPT ![p] = "reply_stamp"]
    /\ UNCHANGED <<DATA, fs, data_lock, PENDING_IMAGE, PENDING_IMAGE_LOCK,
                   now, conc, budget, ops, crashes, allocLog, voteLog, imgLog, reqLog, saveLog>>

\* create_thread or thread.send raises: the reply goes to the confession
\* channel instead, and when that fails too the answer is "saved, but I
\* couldn't post it"
ReplyFallback(p, posted) ==
    /\ pc[p] \in {"reply_thread", "reply_send"}
    /\ loc' = [loc EXCEPT ![p].answer = IF posted THEN "reply_sent" ELSE "reply_saved"]
    /\ pc' = [pc EXCEPT ![p] = "respond"]
    /\ UNCHANGED <<DATA, fs, data_lock, PENDING_IMAGE, PENDING_IMAGE_LOCK, messages,
                   now, conc, budget, ops, crashes, allocLog, voteLog, imgLog, reqLog, saveLog>>

\* rec["thread_id"] = thread.id, and the save
ReplyStamp(p) ==
    /\ pc[p] = "reply_stamp"
    /\ LockFree(data_lock)
    /\ data_lock' = p
    /\ DATA' = [DATA EXCEPT !.confessions[loc[p].id].thread_id = loc[p].thread]
    /\ BeginSave(p, DATA', "reply_send", loc)
    /\ UNCHANGED <<PENDING_IMAGE, PENDING_IMAGE_LOCK, messages,
                   now, conc, budget, ops, crashes, allocLog, voteLog, imgLog, reqLog>>

\* ------------------------------------------------------------------ the clock
\* half a TTL passes
Tick ==
    /\ now < MaxTicks * (PENDING_IMAGE_TTL_SECONDS \div 2)
    /\ now' = now + PENDING_IMAGE_TTL_SECONDS \div 2
    /\ UNCHANGED <<DATA, fs, data_lock, PENDING_IMAGE, PENDING_IMAGE_LOCK, pc, loc, messages,
                   conc, budget, ops, crashes, allocLog, voteLog, imgLog, reqLog, saveLog>>

\* --------------------------------------------------------- the initial states
\* the guild's settings after `!panel`, `!suggestionpanel` and `!panel2`
LoadedCfg == [confession_channel_id |-> ConfessionChannel,
              suggestion_channel_id |-> SuggestionChannel,
              log_channel_id |-> OtherChannel]

\* who submitted the n-th loaded suggestion
LoadedAuthor(n) == ((n - 1) % MaxUsers) + 1

\* the votes the loaded suggestions hold: user 1 has upvoted the first and the
\* last user has downvoted it, the others have no votes yet
LoadedVotes(n) ==
    IF n = 1 /\ MaxUsers > 1 THEN [upvotes |-> {1}, downvotes |-> {MaxUsers}]
    ELSE [upvotes |-> {}, downvotes |-> {}]

\* the snapshot an earlier run leaves after the three panel commands and n
\* suggestions, the n-th posted as message n, and some votes
LoadedData(n) ==
    [default_data EXCEPT
        !.suggestion_count = n,
        !.suggestions = [i \in 1..n |->
            [SuggestionRecord(LoadedAuthor(i), i) EXCEPT
                !.upvotes = LoadedVotes(i).upvotes, !.downvotes = LoadedVotes(i).downvotes]],
        !.message_to_suggestion = [m \in 1..n |-> m],
        !.guild_config = Put(EmptyMap, GuildId, LoadedCfg)]

\* Discord's messages for that snapshot, and `orphans` more suggestion messages
\* posted by a run that ended before it stored their records
LoadedMessages(n, orphans) ==
    [m \in 1..(n + orphans) |-> Message("suggestion", m, SuggestionChannel)]

\* the file save_data_atomic leaves for d
FileOf(d) == [exists |-> TRUE, data |-> d, written |-> SaveChunks]

\* DATA = load_data() at import, and nothing else in memory
InitFrom(file, msgs, c, b) ==
    /\ fs = [canon |-> file, tmp |-> NoFile]
    /\ DATA = load_data(file)
    /\ data_lock = NoProc
    /\ PENDING_IMAGE = <<>>
    /\ PENDING_IMAGE_LOCK = NoProc
    /\ pc = [p \in Procs |-> "idle"]
    /\ loc = [p \in Procs |-> IdleLoc]
    /\ messages = msgs
    /\ now = 0
    /\ conc = c
    /\ budget = b
    /\ ops = 0
    /\ crashes = 0
    /\ allocLog = [confession |-> <<>>, suggestion |-> <<>>]
    /\ voteLog = <<>>
    /\ imgLog = <<>>
    /\ reqLog = <<>>
    /\ saveLog = [old |-> file, new |-> load_data(file),
                  c_old |-> file, c_new |-> load_data(file), c_loaded |-> load_data(file),
                  c_mid |-> FALSE]

Kinds == {"confession", "suggestion"}

\* ------------------------------------------------------- the specifications
\* the steps every handler shares
SharedStep(p) ==
    \/ SaveWrite(p)
    \/ SaveReplace(p)
    \/ Respond(p)

SubmitStep(p) ==
    \/ \E kind \in Kinds, user \in Users, valid \in BOOLEAN : SubmitStart(p, kind, user, valid)
    \/ SubmitPostOk(p)
    \/ SubmitPostFail(p)
    \/ SubmitStore(p)

RebuildStep(p) == \E kind \in Kinds : Rebuild(p, kind)

VoteStep(p) ==
    \/ \E user \in Users, m \in SuggestionMessages, up \in BOOLEAN : VoteStart(p, user, m, up)
    \/ VoteWrite(p)
    \/ VoteEdit(p)

AttachStep(p) == \E user \in Users, m \in SuggestionMessages : AttachStart(p, user, m)

StatusStep(p) ==
    \/ \E user \in Users, m \in SuggestionMessages, new_status \in Statuses :
          StatusStart(p, user, m, new_status)
    \/ StatusEdit(p)

NoImageStep(p) == \E user \in Users, m \in SuggestionMessages : NoImageStart(p, user, m)

ReplyStep(p) ==
    \/ \E user \in Users, m \in ConfessionMessages : ReplyStart(p, user, m)
    \/ \E valid \in BOOLEAN : ReplySubmit(p, valid)
    \/ ReplySend(p)
    \/ ReplyCreateThread(p)
    \/ \E posted \in BOOLEAN : ReplyFallback(p, posted)
    \/ ReplyStamp(p)

OnMessageStep(p) ==
    \/ \E user \in Users, chan \in {SuggestionChannel, OtherChannel},
          ref \in SuggestionMessages \cup {None} : OnMessageStart(p, user, chan, ref)
    \/ OnMessageEdit(p)
    \/ OnMessageClear(p)
    \/ OnMessageDelete(p)

\* submissions of both kinds, from a snapshot with the channels set
InitSubmit == InitFrom(FileOf(LoadedData(0)), <<>>, NumProcs, MaxOps)
NextSubmit == \E p \in Procs : SubmitStep(p) \/ SharedStep(p)
SpecSubmit == InitSubmit /\ [][NextSubmit]_vars

\* submissions and rebuilds of the two indexes
NextIndex == \E p \in Procs : SubmitStep(p) \/ RebuildStep(p) \/ SharedStep(p)
SpecIndex == InitSubmit /\ [][NextIndex]_vars

\* submissions, and crashes of the process
NextCrash == (\E p \in Procs : SubmitStep(p) \/ SharedStep(p)) \/ Crash
SpecCrash == InitSubmit /\ [][NextCrash]_vars

\* votes on the loaded suggestions
InitVote == InitFrom(FileOf(LoadedData(NumLoaded)), LoadedMessages(NumLoaded, 0), NumProcs, MaxOps)
NextVote == \E p \in Procs : VoteStep(p) \/ SharedStep(p)
SpecVote == InitVote /\ [][NextVote]_vars

\* image requests and image messages, handlers interleaving
InitImage == InitFrom(FileOf(LoadedData(NumLoaded)), LoadedMessages(NumLoaded, 0), NumProcs, MaxSeqOps)
NextImage == (\E p \in Procs : AttachStep(p) \/ OnMessageStep(p) \/ SharedStep(p)) \/ Tick
SpecImage == InitImage /\ [][NextImage]_vars

\* the same, each handler run to its end before the next event is dispatched
InitImageSeq == InitFrom(FileOf(LoadedData(NumLoaded)), LoadedMessages(NumLoaded, 0), 1, MaxSeqOps)
SpecImageSeq == InitImageSeq /\ [][NextImage]_vars

\* the loaded snapshot with every suggestion submitted by the last user, who can
\* so have several image requests pending
OneAuthorData(n) ==
    [LoadedData(n) EXCEPT
        !.suggestions = [i \in 1..n |-> [LoadedData(n).suggestions[i] EXCEPT !.user_id = MaxUsers]]]

\* image requests and image messages of one author, handlers one after the other
InitMatch == InitFrom(FileOf(OneAuthorData(NumLoaded)), LoadedMessages(NumLoaded, 0), 1, MaxSeqOps)
SpecMatch == InitMatch /\ [][NextImage]_vars

\* a snapshot of n suggestions (messages 1..n) and n confessions (messages
\* n+1..2n) whose two indexes hold what `damage` says: damage[k] is the identifier
\* the indexes give for the k-th record's message, and for k = n + 1 the one they
\* give for a message that no record has
DamagedKey(kind, n, k) ==
    IF k > n THEN 2 * n + 1 ELSE IF kind = "confession" THEN n + k ELSE k

DamagedIndex(kind, n, damage) ==
    [m \in {DamagedKey(kind, n, k) : k \in DOMAIN damage}
        |-> damage[CHOOSE k \in DOMAIN damage : DamagedKey(kind, n, k) = m]]

DamagedData(n, damage) ==
    [LoadedData(n) EXCEPT
        !.confession_count = n,
        !.confessions = [i \in 1..n |-> ConfessionRecord(LoadedAuthor(i), n + i)],
        !.message_to_confession = DamagedIndex("confession", n, damage),
        !.message_to_suggestion = DamagedIndex("suggestion", n, damage)]

DamagedMessages(n) ==
    [m \in 1..(2 * n) |-> IF m <= n THEN Message("suggestion", m, SuggestionChannel)
                                    ELSE Message("confession", m - n, ConfessionChannel)]

\* what an index can hold: any identifier for any of these messages
Damages(n) == UNION {[K -> 1..n] : K \in SUBSET (1..(n + 1))}

\* the rebuild commands, from a snapshot with any index content
InitRebuild ==
    \E damage \in Damages(NumLoaded) :
        InitFrom(FileOf(DamagedData(NumLoaded, damage)), DamagedMessages(NumLoaded), NumProcs, MaxOps)
NextRebuild == \E p \in Procs : RebuildStep(p) \/ SharedStep(p)
SpecRebuild == InitRebuild /\ [][NextRebuild]_vars

\* a snapshot whose indexes hold the first record's message only, and Discord's
\* messages for it with one more suggestion message, posted by a run that ended
\* before it stored the record
FirstOnly == [k \in {1} |-> 1]

DirectMessages(n) ==
    Append(DamagedMessages(n), Message("suggestion", n + 1, SuggestionChannel))

\* the handlers that start from a message, one after the other, on that snapshot
InitDirect ==
    InitFrom(FileOf(DamagedData(NumLoaded, FirstOnly)), DirectMessages(NumLoaded), 1, MaxOps)
NextDirect ==
    \E p \in Procs : \/ ReplyStep(p) \/ VoteStep(p) \/ StatusStep(p) \/ AttachStep(p)
                     \/ NoImageStep(p) \/ OnMessageStep(p) \/ SharedStep(p)
SpecDirect == InitDirect /\ [][NextDirect]_vars

\* status changes, image requests and their cancellations on the loaded
\* suggestions, one after the other
NextModerate ==
    \E p \in Procs : StatusStep(p) \/ AttachStep(p) \/ NoImageStep(p) \/ SharedStep(p)
InitModerate ==
    InitFrom(FileOf(LoadedData(NumLoaded)), LoadedMessages(NumLoaded, 0), 1, MaxSeqOps)
SpecModerate == InitModerate /\ [][NextModerate]_vars

\* a snapshot whose index holds, besides the records' messages, an entry that
\* gives the first suggestion for a message no record has
StaleEntry(n) == [k \in 1..(n + 1) |-> IF k > n THEN 1 ELSE k]

\* image requests, rebuilds of the indexes and image messages, one after the
\* other, on that snapshot
InitStale ==
    InitFrom(FileOf(DamagedData(NumLoaded, StaleEntry(NumLoaded))), DirectMessages(NumLoaded),
             1, MaxSeqOps)
NextStale ==
    \E p \in Procs : \/ AttachStep(p) \/ RebuildStep(p) \/ OnMessageStep(p)
                     \/ OnMessageOrphan(p) \/ SharedStep(p)
SpecStale == InitStale /\ [][NextStale]_vars

\* a snapshot of NumLoaded confessions and suggestions with whole indexes
Intact(n) == [k \in 1..n |-> k]

\* replies to the loaded confessions, handlers interleaving
InitReply ==
    InitFrom(FileOf(DamagedData(NumLoaded, Intact(NumLoaded))), DamagedMessages(NumLoaded),
             NumProcs, MaxOps)
NextReply == \E p \in Procs : ReplyStep(p) \/ SharedStep(p)
SpecReply == InitReply /\ [][NextReply]_vars

\* what confessions.json can be when the process starts: missing, cut off
\* before its JSON text is whole, or whole, with up to NumLoaded suggestions
StartFiles ==
    {NoFile} \cup {[exists |-> TRUE, data |-> LoadedData(n), written |-> w] :
                      n \in 0..NumLoaded, w \in 0..SaveChunks}

\* submissions one after the other and crashes, from any of these files
InitLoad ==
    \E file \in StartFiles :
        InitFrom(file, LoadedMessages(file.data.suggestion_count, 0), 1, MaxOps)
SpecLoad == InitLoad /\ [][NextCrash]_vars

\* what the handler at p does once it has started: every step but the starts
Continue(p) ==
    \/ SubmitPostOk(p) \/ SubmitPostFail(p) \/ SubmitStore(p)
    \/ VoteWrite(p) \/ VoteEdit(p)
    \/ OnMessageEdit(p) \/ OnMessageClear(p) \/ OnMessageDelete(p) \/ OnMessageOrphan(p)
    \/ SharedStep(p)

\* the member whose events these are: neither lock looks at who calls
Member == 1

\* submissions, votes, rebuilds, image requests and messages of one member on
\* the snapshot with the stale index entry, handlers interleaving; the event
\* loop runs every coroutine that can run, and a call to Discord returns or
\* raises
InitLive ==
    InitFrom(FileOf(DamagedData(NumLoaded, StaleEntry(NumLoaded))), DirectMessages(NumLoaded),
             NumProcs, MaxSeqOps)
HandlerStep(p) ==
    \/ (\E kind \in Kinds, valid \in BOOLEAN : SubmitStart(p, kind, Member, valid))
    \/ SubmitPostOk(p) \/ SubmitPostFail(p) \/ SubmitStore(p)
    \/ RebuildStep(p)
    \/ (\E m \in SuggestionMessages, up \in BOOLEAN : VoteStart(p, Member, m, up))
    \/ VoteWrite(p) \/ VoteEdit(p)
    \/ (\E m \in SuggestionMessages : AttachStart(p, Member, m))
    \/ (\E chan \in {SuggestionChannel, OtherChannel}, ref \in SuggestionMessages \cup {None} :
            OnMessageStart(p, Member, chan, ref))
    \/ OnMessageEdit(p) \/ OnMessageClear(p) \/ OnMessageDelete(p) \/ OnMessageOrphan(p)
    \/ SharedStep(p)
NextLive == \E p \in Procs : HandlerStep(p)
SpecLive == InitLive /\ [][NextLive]_vars /\ \A p \in Procs : WF_vars(HandlerStep(p))

\* every handler, the clock and crashes, from the loaded snapshot
Next ==
    \/ \E p \in Procs : \/ SubmitStep(p) \/ RebuildStep(p) \/ VoteStep(p)
                        \/ AttachStep(p) \/ OnMessageStep(p) \/ SharedStep(p)
                        \/ StatusStep(p) \/ NoImageStep(p) \/ ReplyStep(p)
                        \/ OnMessageOrphan(p)
    \/ Tick
    \/ Crash
Spec == InitVote /\ [][Next]_vars

\* ------------------------------------------------------------- the properties
\* C1: the identifiers handed to confession submissions, in the order they are
\* handed out, are 1, 2, 3, ... after the loaded counter, whether the handlers
\* run one after the other or interleave: none is skipped, none handed out twice
C1_ConfessionIdsSequential ==
    \A i \in 1..Len(allocLog.confession) : allocLog.confession[i] = i

\* two confession handlers in flight at once, each holding its identifier
C1_Witness ==
    /\ Len(allocLog.confession) = 2
    /\ \A p \in {1, 2} : loc[p].h = "confession" /\ pc[p] \in {"sub_post", "sub_store"}

\* the two lists of every suggestion of d share no user
Disjoint(d) ==
    \A s \in DOMAIN d.suggestions :
        d.suggestions[s].upvotes \cap d.suggestions[s].downvotes = {}

\* entries i and i + 1 of voteLog are toggles of one user on one suggestion
SameVoter(i) ==
    /\ voteLog[i].sid = voteLog[i + 1].sid
    /\ voteLog[i].uid = voteLog[i + 1].uid

\* C2: no user is in both the upvote and the downvote set of a suggestion, in
\* memory and in the saved snapshot; and a user's Upvote followed by the same
\* user's Downvote on the same suggestion leaves the user in the downvote set only
C2_NoDoubleVote ==
    /\ Disjoint(DATA)
    /\ Disjoint(fs.canon.data)
    /\ \A i \in 1..(Len(voteLog) - 1) :
          SameVoter(i) /\ voteLog[i].up /\ ~voteLog[i + 1].up
              => /\ voteLog[i].uid \in voteLog[i + 1].postDown
                 /\ voteLog[i].uid \notin voteLog[i + 1].postUp

\* a user upvoted, then downvoted, and the record holds the user as a downvoter only
C2_Witness ==
    /\ Len(voteLog) = 2
    /\ SameVoter(1) /\ voteLog[1].up /\ ~voteLog[2].up
    /\ voteLog[1].uid \in voteLog[1].postUp
    /\ voteLog[1].uid \in DATA.suggestions[voteLog[1].sid].downvotes
    /\ voteLog[1].uid \notin DATA.suggestions[voteLog[1].sid].upvotes

\* entries i and i + 1 of voteLog are two toggles of the same side by one user
\* on one suggestion
SameToggleTwice(i) ==
    /\ SameVoter(i)
    /\ voteLog[i].up = voteLog[i + 1].up

\* C3 as stated: the same toggle applied twice in a row by one user restores
\* both sets of the suggestion to what they were before
C3_TwiceRestores ==
    \A i \in 1..(Len(voteLog) - 1) :
        SameToggleTwice(i)
            => /\ voteLog[i + 1].postUp = voteLog[i].preUp
               /\ voteLog[i + 1].postDown = voteLog[i].preDown

\* C3: the same toggle applied twice in a row by one user restores the set of
\* the side voted for, and restores the set of the other side but for the user:
\* a user who was in the other side's set before ends in neither set
C3_TwiceRestoresButOpposite ==
    \A i \in 1..(Len(voteLog) - 1) :
        SameToggleTwice(i)
            => IF voteLog[i].up
               THEN /\ voteLog[i + 1].postUp = voteLog[i].preUp
                    /\ voteLog[i + 1].postDown = voteLog[i].preDown \ {voteLog[i].uid}
               ELSE /\ voteLog[i + 1].postDown = voteLog[i].preDown
                    /\ voteLog[i + 1].postUp = voteLog[i].preUp \ {voteLog[i].uid}

\* a downvoter pressed Upvote twice and is now in neither set
C3_Witness ==
    /\ Len(voteLog) = 2
    /\ SameToggleTwice(1) /\ voteLog[1].up
    /\ voteLog[1].uid \in voteLog[1].preDown
    /\ voteLog[1].uid \notin DATA.suggestions[voteLog[1].sid].upvotes
    /\ voteLog[1].uid \notin DATA.suggestions[voteLog[1].sid].downvotes

\* the last toggle handler p has done
LastToggleOf(p) ==
    voteLog[CHOOSE i \in 1..Len(voteLog) :
                /\ voteLog[i].proc = p
                /\ \A j \in (i + 1)..Len(voteLog) : voteLog[j].proc # p]

\* C4: a toggle of side X by user u removes u from X when u is in X and changes
\* nothing else; otherwise it adds u to X and removes u from the other side; the
\* record holds the two sets so changed, and the tallies the handler goes on
\* with are their sizes
C4_ToggleSemantics ==
    /\ \A i \in 1..Len(voteLog) :
          LET e == voteLog[i]
              mine == IF e.up THEN e.preUp ELSE e.preDown
              other == IF e.up THEN e.preDown ELSE e.preUp
              mine2 == IF e.up THEN e.postUp ELSE e.postDown
              other2 == IF e.up THEN e.postDown ELSE e.postUp
          IN IF e.uid \in mine
             THEN mine2 = mine \ {e.uid} /\ other2 = other
             ELSE mine2 = mine \cup {e.uid} /\ other2 = other \ {e.uid}
    /\ \A p \in Procs :
          loc[p].h = "vote" /\ pc[p] = "save"
              => /\ DATA.suggestions[loc[p].id].upvotes = LastToggleOf(p).postUp
                 /\ DATA.suggestions[loc[p].id].downvotes = LastToggleOf(p).postDown
    /\ \A p \in Procs :
          pc[p] = "vote_edit"
              => /\ loc[p].up_count = Cardinality(LastToggleOf(p).postUp)
                 /\ loc[p].down_count = Cardinality(LastToggleOf(p).postDown)

\* a downvoter has pressed Upvote: the handler goes on with two upvotes and no
\* downvote
C4_Witness ==
    \E p \in Procs :
        /\ pc[p] = "vote_edit"
        /\ loc[p].up
        /\ loc[p].user \in LastToggleOf(p).preDown
        /\ loc[p].user \notin LastToggleOf(p).preUp
        /\ loc[p].up_count = Cardinality(LastToggleOf(p).preUp) + 1
        /\ loc[p].down_count = Cardinality(LastToggleOf(p).preDown) - 1

\* the toggles done on suggestion s, in the order of the log
TogglesOn(s) == SelectSeq(voteLog, LAMBDA e : e.sid = s)

\* the orders n toggles can be applied in
Orders(n) == {f \in [1..n -> 1..n] : \A i, j \in 1..n : i # j => f[i] # f[j]}

\* the sets of a suggestion after the toggles es applied one after the other,
\* in the order f, to the sets v
RECURSIVE SerialToggles(_, _, _, _)
SerialToggles(v, es, f, k) ==
    IF k > Len(es) THEN v
    ELSE SerialToggles(toggle_vote(v.upvotes, v.downvotes, es[f[k]].uid, es[f[k]].up),
                       es, f, k + 1)

\* C5: the two sets of every suggestion are what the toggles done on it give
\* when applied one after the other in some order, also when the handlers that
\* did them were in flight together
C5_VotesSerial ==
    \A s \in DOMAIN DATA.suggestions :
        \E f \in Orders(Len(TogglesOn(s))) :
            LET v == SerialToggles(LoadedVotes(s), TogglesOn(s), f, 1)
            IN /\ DATA.suggestions[s].upvotes = v.upvotes
               /\ DATA.suggestions[s].downvotes = v.downvotes

\* two vote handlers on one suggestion in flight together, both past their toggle
C5_Witness ==
    /\ \A p \in {1, 2} : loc[p].h = "vote" /\ pc[p] = "vote_edit"
    /\ loc[1].id = loc[2].id
    /\ Len(TogglesOn(loc[1].id)) = 2

\* C6: no identifier is handed out twice, for confessions and for suggestions:
\* the identifiers handed out so far differ, and so do those held by handlers of
\* one kind in flight together
C6_DistinctIds ==
    /\ \A kind \in Kinds : \A i, j \in 1..Len(allocLog[kind]) :
          i # j => allocLog[kind][i] # allocLog[kind][j]
    /\ \A p, q \in Procs :
          p # q /\ loc[p].h \in Kinds /\ loc[p].h = loc[q].h
                /\ loc[p].id # None /\ loc[q].id # None
              => loc[p].id # loc[q].id

\* two suggestion handlers in flight at once, each holding its identifier
C6_Witness ==
    /\ Len(allocLog.suggestion) = 2
    /\ \A p \in {1, 2} : loc[p].h = "suggestion" /\ pc[p] \in {"sub_post", "sub_store"}

\* every record of d is indexed under its message id
Indexed(d) ==
    \A kind \in Kinds : \A id \in DOMAIN d[TableKey(kind)] :
        LET m == d[TableKey(kind)][id].message_id
        IN m \in DOMAIN d[IndexKey(kind)] /\ d[IndexKey(kind)][m] = id

\* C7: the index maps the message id of every stored confession and suggestion
\* to the record's identifier, in memory and in every snapshot written
C7_RecordsIndexed ==
    /\ Indexed(DATA)
    /\ Indexed(fs.canon.data)
    /\ Indexed(fs.tmp.data)

\* a confession and a suggestion are stored and saved
C7_Witness ==
    /\ DOMAIN DATA.confessions # {}
    /\ DOMAIN DATA.suggestions # {}
    /\ Whole(fs.canon) /\ fs.canon.data = DATA

\* C8: confessions.json holds the whole snapshot of before the save in progress
\* or the whole snapshot that save writes, never a part of one; a process
\* restarted after a crash loads one of the two
C8_SnapshotOldOrNew ==
    /\ fs.canon.exists => Whole(fs.canon)
    /\ fs.canon \in {saveLog.old, FileOf(saveLog.new)}
    /\ crashes > 0 => saveLog.c_loaded \in {load_data(saveLog.c_old), saveLog.c_new}

\* the process crashed in the middle of a save and came back with the snapshot
\* of before it
C8_Witness ==
    /\ crashes > 0
    /\ saveLog.c_mid
    /\ saveLog.c_new # load_data(saveLog.c_old)
    /\ saveLog.c_loaded = load_data(saveLog.c_old)
    /\ DATA = saveLog.c_loaded

\* the urls written to suggestions for request r
ImagesFor(r) == {imgLog[i].url : i \in {j \in 1..Len(imgLog) : imgLog[j].req = r}}

\* C9: with the handlers run one after the other, an image posted for a request
\* goes to the suggestion the request was made for and is posted by the user the
\* request is for; when its handler has cleared the request the record holds the
\* image and the request is gone; no request takes a second image, and an image
\* that matches no request becomes no suggestion's image
C9_OneShotSequential ==
    /\ \A i \in 1..Len(imgLog) :
          imgLog[i].req # None
              => /\ reqLog[imgLog[i].req].user = imgLog[i].user
                 /\ Get(DATA.message_to_suggestion, reqLog[imgLog[i].req].msg) = imgLog[i].sid
    /\ \A p \in Procs :
          pc[p] = "om_delete"
              => /\ DATA.suggestions[DATA.message_to_suggestion[loc[p].target]].image_url
                        = loc[p].url
                 /\ pending_index(PENDING_IMAGE, GuildId, loc[p].target) = 0
    /\ \A i, j \in 1..Len(imgLog) :
          i # j /\ imgLog[i].req # None => imgLog[i].req # imgLog[j].req
    /\ \A i \in 1..Len(imgLog) :
          imgLog[i].req = None
              => \A s \in DOMAIN DATA.suggestions :
                     DATA.suggestions[s].image_url # imgLog[i].url

\* the author asked for an image, posted one, which the suggestion now holds,
\* and posted a second one, which matched nothing
C9_Witness ==
    /\ Active = {}
    /\ Len(reqLog) = 1 /\ reqLog[1].by = reqLog[1].user
    /\ Len(imgLog) = 2
    /\ imgLog[1].req = 1 /\ imgLog[2].req = None
    /\ imgLog[2].user = imgLog[1].user
    /\ DATA.suggestions[imgLog[1].sid].image_url = imgLog[1].url
    /\ PENDING_IMAGE = <<>>
    /\ now = 0

\* C10 as stated: with the handlers interleaving as the event loop lets them,
\* a request takes one image at most
C10_OneImagePerRequest ==
    \A r \in 1..Len(reqLog) : Cardinality(ImagesFor(r)) <= 1

\* the entries of the table P that have not expired at time t
Unexpired(P, t) == SelectSeq(P, LAMBDA v : v.expires_at > t)

\* an image message posted in the suggestion channel is resolved in this step;
\* its entry in imgLog says by whom and what for
ImageResolved == Len(imgLog') = Len(imgLog) + 1

LastImage == imgLog'[Len(imgLog')]

\* C11 as stated: when the poster of an image has asked for an image on a
\* suggestion (as its author or as a moderator) and that request has not
\* expired, the image is attached for a request of the poster's
C11_RequesterImageAttached ==
    [][ImageResolved
         => \A i \in 1..Len(Unexpired(PENDING_IMAGE, now)) :
                LET v == Unexpired(PENDING_IMAGE, now)[i]
                IN reqLog[v.req].by = LastImage.user
                       => /\ LastImage.req # None
                          /\ reqLog[LastImage.req].by = LastImage.user]_vars

\* handler p starts on an image message in this step and finds a target for it
ImageTargeted(p) == pc[p] = "idle" /\ pc'[p] = "save" /\ loc'[p].h = "on_message"

\* the entries of P under key (guild, mid) that are for `user` in channel `chan`
EntriesFor(P, mid, user, chan) ==
    SelectSeq(P, LAMBDA v : /\ v.guild_id = GuildId /\ v.message_id = mid
                            /\ v.user_id = user /\ v.channel_id = chan)

\* C12: an image message that replies to a suggestion message for which the
\* poster has an unexpired request in this channel is resolved to that message,
\* whatever other requests the poster has pending: the image is written to the
\* suggestion of the referenced message, for that request
C12_ExplicitReferenceWins ==
    [][\A p \in Procs :
          LET l == loc'[p]
              es == EntriesFor(Unexpired(PENDING_IMAGE, now), l.ref, l.user, l.chan)
          IN ImageTargeted(p) /\ l.ref # None /\ es # <<>>
                 => /\ l.target = l.ref
                    /\ LastImage.req = es[1].req
                    /\ LastImage.sid = DATA.message_to_suggestion[l.ref]
                    /\ DATA'.suggestions[LastImage.sid].image_url = l.url]_vars

\* an image that replies to the older of the poster's two requests goes to it
C12_Witness ==
    \E p \in Procs :
        /\ pc[p] = "save" /\ loc[p].h = "on_message"
        /\ loc[p].ref # None /\ loc[p].target = loc[p].ref
        /\ \E i, j \in 1..Len(PENDING_IMAGE) :
              /\ PENDING_IMAGE[i].message_id = loc[p].ref
              /\ PENDING_IMAGE[j].message_id # loc[p].ref
              /\ PENDING_IMAGE[j].user_id = loc[p].user
              /\ PENDING_IMAGE[j].channel_id = loc[p].chan
              /\ PENDING_IMAGE[j].created_at > PENDING_IMAGE[i].created_at
              /\ PENDING_IMAGE[j].expires_at > now
        /\ DATA.suggestions[DATA.message_to_suggestion[loc[p].ref]].image_url = loc[p].url

\* the entries of P for `user` in channel `chan` of the guild
Candidates(P, user, chan) ==
    SelectSeq(P, LAMBDA v : v.guild_id = GuildId /\ v.user_id = user /\ v.channel_id = chan)

\* v is the entry of c created last: no entry of c has a later creation time,
\* and of those with v's creation time none was registered after v
CreatedLast(c, v) ==
    \A i \in 1..Len(c) :
        \/ c[i].created_at < v.created_at
        \/ c[i].created_at = v.created_at /\ c[i].req <= v.req

\* C13 as stated: an image message with no usable reference matches nothing
\* only when the poster has no unexpired request in the channel, and otherwise
\* is resolved to the poster's request created last, which among requests of
\* equal creation time is the one registered last
C13_MostRecentWins ==
    [][/\ ImageResolved /\ LastImage.req = None
            => Candidates(Unexpired(PENDING_IMAGE, now), LastImage.user, SuggestionChannel) = <<>>
       /\ \A p \in Procs :
             LET l == loc'[p]
                 P == Unexpired(PENDING_IMAGE, now)
                 c == Candidates(P, l.user, l.chan)
             IN ImageTargeted(p) /\ (l.ref = None \/ EntriesFor(P, l.ref, l.user, l.chan) = <<>>)
                    => \E i \in 1..Len(c) :
                           c[i].message_id = l.target /\ CreatedLast(c, c[i])]_vars

\* C14: a request is never matched once 30 minutes have passed since it was
\* (last) registered, by reference or as the most recent one: the request an
\* image is written for has not expired, and an image whose poster has only
\* expired requests matches nothing and changes no suggestion
C14_ExpiredNeverMatched ==
    [][/\ \A i \in 1..Len(PENDING_IMAGE) :
             PENDING_IMAGE[i].expires_at = PENDING_IMAGE[i].created_at + 30 * 60
       /\ \A p \in Procs :
             ImageTargeted(p)
                 => \E i \in 1..Len(PENDING_IMAGE) :
                        /\ PENDING_IMAGE[i].message_id = loc'[p].target
                        /\ PENDING_IMAGE[i].req = LastImage.req
                        /\ PENDING_IMAGE[i].created_at + 30 * 60 > now
       /\ ImageResolved
          /\ (\A i \in 1..Len(PENDING_IMAGE) :
                  PENDING_IMAGE[i].user_id = LastImage.user
                      => PENDING_IMAGE[i].created_at + 30 * 60 <= now)
             => /\ LastImage.req = None
                /\ DATA'.suggestions = DATA.suggestions
                /\ fs' = fs]_vars

\* the author's only request expired before the author's image came: the image
\* matched nothing, the request is gone, and no suggestion holds an image
C14_Witness ==
    /\ Len(reqLog) = 1 /\ reqLog[1].by = reqLog[1].user
    /\ Len(imgLog) = 1 /\ imgLog[1].req = None /\ imgLog[1].user = reqLog[1].user
    /\ now >= PENDING_IMAGE_TTL_SECONDS
    /\ PENDING_IMAGE = <<>>
    /\ \A sid \in DOMAIN DATA.suggestions : DATA.suggestions[sid].image_url = None

\* the index of `kind` in d is the map from the message id of every stored
\* record of that kind to the record's identifier, and nothing else
ExactIndex(d, kind) ==
    /\ DOMAIN d[IndexKey(kind)] = {d[TableKey(kind)][id].message_id : id \in DOMAIN d[TableKey(kind)]}
    /\ \A id \in DOMAIN d[TableKey(kind)] :
          d[IndexKey(kind)][d[TableKey(kind)][id].message_id] = id

\* C15: once a rebuild command has run its block, whatever the index held
\* before (entries missing, entries for messages of no record, entries naming
\* the wrong record), the index of its kind is exactly the map from each stored
\* record's message id to the record's identifier, in memory and, when the
\* save is done, in the file, and the count the command reports is the number
\* of entries of the index
C15_RebuildExact ==
    \A p \in Procs : \A kind \in Kinds :
        loc[p].h = RebuildCommand(kind) /\ pc[p] \in {"save", "respond"}
            => /\ ExactIndex(DATA, kind)
               /\ pc[p] = "respond" => ExactIndex(fs.canon.data, kind)
               /\ loc[p].rebuilt = Cardinality(DOMAIN DATA[IndexKey(kind)])

\* rebuildmap has run on a snapshot whose confession index had lost an entry and
\* held a stale one, and reports as many confessions as there are
C15_Witness ==
    \E p \in Procs :
        /\ loc[p].h = "rebuildmap" /\ pc[p] = "respond"
        /\ ~ExactIndex(saveLog.c_old.data, "confession")
        /\ \E id \in DOMAIN DATA.confessions :
              DATA.confessions[id].message_id \notin DOMAIN saveLog.c_old.data.message_to_confession
        /\ \E m \in DOMAIN saveLog.c_old.data.message_to_confession :
              \A id \in DOMAIN DATA.confessions : DATA.confessions[id].message_id # m
        /\ loc[p].rebuilt = NumLoaded

\* the answers that say the handler could not tell or find its entity
Failures == {"not_detected", "not_found"}

\* the record the title of message m names, None when there is none
TitledRecord(m) ==
    IF messages[m].num \in DOMAIN DATA[TableKey(messages[m].kind)]
    THEN messages[m].num
    ELSE None

\* C16 as stated: a handler started from a message that the index does not
\* hold, but whose title names a stored record, does not answer that it cannot
\* tell or find the entity: reply, vote, status change, image request and its
\* cancellation all go on with the record the title names
C16_DirectIdentifierAccepted ==
    \A p \in Procs :
        /\ loc[p].h \in {"reply", "vote", "status", "attach", "no_image"}
        /\ pc[p] \in {"respond", "respond_locked"}
        /\ loc[p].msg \notin DOMAIN DATA[IndexKey(messages[loc[p].msg].kind)]
        /\ TitledRecord(loc[p].msg) # None
        => loc[p].answer \notin Failures

\* C17 as stated: a status change by a moderator on a message that resolves to
\* no stored suggestion reports no success and leaves the status the message shows
C17_StatusNotFound ==
    \A p \in Procs :
        /\ loc[p].h = "status"
        /\ loc[p].user \in Mods
        /\ pc[p] = "respond"
        /\ loc[p].id \notin DOMAIN DATA.suggestions
        => /\ loc[p].answer # "status_updated"
           /\ messages[loc[p].msg].status = "pending"

\* the handler p starts in this step is one its caller may not use: a status
\* change by a caller who is no moderator, or an image request or its
\* cancellation on a stored suggestion by a caller who is neither its author
\* nor a moderator
StartsForbidden(p) ==
    /\ pc[p] = "idle"
    /\ pc'[p] # "idle"
    /\ \/ loc'[p].h = "status" /\ loc'[p].user \notin Mods
       \/ /\ loc'[p].h \in {"attach", "no_image"}
          /\ loc'[p].user \notin Mods
          /\ Get(DATA.message_to_suggestion, loc'[p].msg) \in DOMAIN DATA.suggestions
          /\ DATA.suggestions[Get(DATA.message_to_suggestion, loc'[p].msg)].user_id
                # loc'[p].user

\* p answers the caller it refused in this step, and the handler ends
AnswersForbidden(p) ==
    /\ pc[p] = "respond"
    /\ loc[p].answer = "forbidden"
    /\ pc'[p] = "idle"

\* C18: a status change by a caller without Manage Server, and an image request
\* or its cancellation by a caller who is neither the suggestion's author nor a
\* moderator, answer that the caller is not allowed, and from the start of the
\* handler to its end the suggestion records, the file and the pending table
\* are what they were
C18_ForbiddenChangesNothing ==
    [][\A p \in Procs :
          /\ StartsForbidden(p) => pc'[p] = "respond" /\ loc'[p].answer = "forbidden"
          /\ StartsForbidden(p) \/ AnswersForbidden(p)
             => /\ DATA'.suggestions = DATA.suggestions
                /\ fs' = fs
                /\ PENDING_IMAGE' = PENDING_IMAGE
                /\ messages' = messages]_vars

\* a caller who is neither author nor moderator was refused the cancellation of
\* a request that is pending, after a moderator changed the suggestion's status
C18_Witness ==
    \E p \in Procs :
        /\ pc[p] = "respond"
        /\ loc[p].h = "no_image"
        /\ loc[p].answer = "forbidden"
        /\ pending_index(PENDING_IMAGE, GuildId, loc[p].msg) # 0
        /\ messages[loc[p].msg].status # "pending"

\* the tables and the indexes of d
Stored(d) == [k \in {TableKey(kind) : kind \in Kinds} \cup {IndexKey(kind) : kind \in Kinds}
                |-> d[k]]

\* p's submission allocates its identifier and goes to post in this step
SubmissionPosts(p) == pc[p] = "idle" /\ pc'[p] = "sub_post"

\* the post of p's submission fails in this step
PostFails(p) == pc[p] = "sub_post" /\ pc'[p] = "idle"

\* C19: a submission whose post fails changes no table and no index, from its
\* start to the failure; once it has failed no record has the identifier it
\* allocated, and every stored record is indexed
C19_FailedPostLeavesNoRecord ==
    [][\A p \in Procs :
          /\ SubmissionPosts(p) \/ PostFails(p) => Stored(DATA') = Stored(DATA)
          /\ PostFails(p) => /\ loc[p].id \notin DOMAIN DATA'[TableKey(loc[p].h)]
                             /\ Indexed(DATA')
                             /\ Indexed(fs'.canon.data)]_vars

\* the post of the first confession failed and a second one was stored: two
\* identifiers were allocated and the only record is the second
C19_Witness ==
    /\ Active = {}
    /\ Len(allocLog["confession"]) = 2
    /\ DOMAIN DATA.confessions = {2}

\* every record of d has an identifier from 1 to its counter
WithinCounters(d) ==
    \A kind \in Kinds : DOMAIN d[TableKey(kind)] \subseteq 1..d[CountKey(kind)]

\* C20 as stated: every stored confession and suggestion has an identifier
\* from 1 to its counter, and no step lowers confession_count or
\* suggestion_count
C20_CountersBoundIdsAndNeverDecrease ==
    [][/\ WithinCounters(DATA)
       /\ WithinCounters(DATA')
       /\ \A kind \in Kinds : DATA'[CountKey(kind)] >= DATA[CountKey(kind)]]_vars

\* what load_data has to give for file f: the defaults unless f is there and
\* whole, and then what f holds, with every key of the defaults
LoadedFrom(f, d) ==
    /\ ~Whole(f) => d = default_data
    /\ Whole(f) => d = f.data
    /\ DOMAIN d = DOMAIN default_data

\* C21: at the start of the process and at every restart, DATA is the default
\* empty state when confessions.json is missing or its JSON text is not whole,
\* and what the file holds otherwise; the start goes through for every file
C21_LoadDefaults ==
    /\ LoadedFrom(fs.canon, DATA)
    /\ [][crashes' # crashes => LoadedFrom(fs.canon, DATA')]_vars

\* the process was started on a file that is there but not whole, a submission
\* was handled, and the process was restarted on that file
C21_Witness ==
    /\ crashes > 0
    /\ ops > 0
    /\ fs.canon.exists
    /\ ~Whole(fs.canon)
    /\ DATA = default_data

\* C22 as stated: whenever nobody holds data_lock, confessions.json is whole
\* and holds DATA: the counters, the tables, the indexes and the guild's
\* settings
C22_DiskEqualsMemory ==
    data_lock = NoProc => Whole(fs.canon) /\ fs.canon.data = DATA

\* C23 as stated: no handler holds data_lock and PENDING_IMAGE_LOCK at once
C23_LocksNeverNested ==
    \A p \in Procs : ~(data_lock = p /\ PENDING_IMAGE_LOCK = p)

\* the handler at p waits for a call to Discord: a post, an edit, a fetch, a
\* delete, a thread, or the answer to the interaction
AwaitsDiscord(p) ==
    pc[p] \in {"sub_post", "vote_edit", "status_edit", "om_edit", "om_delete",
               "reply_thread", "reply_send", "respond", "respond_locked"}

\* C24 as stated: a handler that waits for a call to Discord does not hold
\* data_lock, on the paths that end well and on those that end with an error
\* answer
C24_NoAwaitUnderLock ==
    \A p \in Procs : AwaitsDiscord(p) => data_lock # p

\* C25 as stated: the identifier a posted confession or suggestion message
\* shows is the identifier of no other submission: no second posted message of
\* the kind shows it, and no submission that has still to post was given it,
\* also after a crash between a post and its save
C25_PostedIdNotReused ==
    /\ \A m1, m2 \in DOMAIN messages :
          m1 # m2 /\ messages[m1].kind = messages[m2].kind
          => messages[m1].num # messages[m2].num
    /\ \A p \in Procs : \A m \in DOMAIN messages :
          pc[p] = "sub_post" /\ messages[m].kind = loc[p].h => messages[m].num # loc[p].id

\* the edit p makes in this step is the last one of the vote handlers in
\* flight on its suggestion: the others have made theirs or have not started
EditsLast(p) ==
    /\ pc[p] = "vote_edit"
    /\ pc'[p] = "respond"
    /\ \A q \in Procs \ {p} :
          ~(loc[q].h = "vote" /\ loc[q].id = loc[p].id
            /\ pc[q] \in {"vote_write", "save", "vote_edit"})

\* C26 as stated: the tallies the last of the interleaved vote handlers on a
\* suggestion writes to its message are the sizes of the stored upvotes and
\* downvotes
C26_LastEditShowsStored ==
    [][\A p \in Procs :
          EditsLast(p) =>
              [up |-> loc[p].up_count, down |-> loc[p].down_count]
                  = vote_counts(DATA.suggestions[loc[p].id])]_vars

HoldsNoLock(p) == data_lock # p /\ PENDING_IMAGE_LOCK # p

\* the handler at p stands before a lock: data_lock at ConfessionModal /
\* SuggestionModal.on_submit line 190 / 424, PENDING_IMAGE_LOCK at on_message
\* line 751
WaitsForLock(p) == pc[p] \in {"sub_store", "om_clear"}

\* C28: the two locks never block the handlers for good, and a handler that
\* has ended holds neither of them: whenever handlers are under way one of them
\* can take its next step; a handler that stands before data_lock or
\* PENDING_IMAGE_LOCK goes on only by getting it; and when the event loop runs
\* every coroutine that can run and the calls to Discord return or raise, every
\* handler ends, the early returns and the failed calls included, so that it
\* got the locks it stood before and has released the locks it took
C28_LocksLive ==
    /\ [](\A p \in Procs : pc[p] = "idle" => HoldsNoLock(p))
    /\ [](Active # {} => ENABLED (\E p \in Procs : Continue(p)))
    /\ [][\A p \in Procs :
            /\ pc[p] = "sub_store" /\ pc'[p] # "sub_store" => LockFree(data_lock) /\ data_lock' = p
            /\ pc[p] = "om_clear" /\ pc'[p] # "om_clear" => LockFree(PENDING_IMAGE_LOCK)]_vars
    /\ \A p \in Procs : (pc[p] # "idle") ~> (pc[p] = "idle")
C28_Witness ==
    \E p, q \in Procs :
        /\ data_lock = p
        /\ pc[p] = "respond_locked"
        /\ pc[q] = "sub_store"
====
